---- MODULE Spec2Model ----
(***************************************************************************)
(* Model of src/3_reference_based_extractor.py: the breadth-first,         *)
(* depth-bounded crawl of main() over a citation graph, with its queue     *)
(* (papers_to_process), its visited set (processed_dois), its budget       *)
(* (papers_processed < max_papers) and the helpers it calls.               *)
(*                                                                         *)
(* A Python str is a sequence of one-character strings, so that lower(),   *)
(* the `in` substring test and the title tokenizer are computed.           *)
(* The external services (PDF reader, Scopus, the extraction API) are      *)
(* inputs: each call draws its raw answer from a small set.                *)
(***************************************************************************)
EXTENDS Integers, Sequences, FiniteSets, TLC

VARIABLES
    pc,                 \* position of main(): start, loop, references, title_search,
                        \* filter, add_refs, rate, done, aborted
    max_papers,         \* args.max_papers
    max_depth,          \* args.max_depth
    keywords,           \* keywords parsed from args.keywords
    seed_text,          \* text of the seed PDF, NotRead before line 382
    all_species_data,   \* list of species records
    processed_dois,     \* set of dois already processed
    papers_to_process,  \* the queue: list of [doi, title, text, distance]
    papers_processed,   \* counter
    current_paper,      \* the paper popped by the current iteration
    references,         \* candidates of the current iteration
    ref_i,              \* position of `for ref in references`
    \* ---- observations of the run (never read by the program) ----
    dequeued,           \* the papers processed, in order: [doi, distance]
    enqueued_by,        \* doi -> doi of the paper whose references step queued it
    enqueued,           \* the dois appended to the queue, in order
    extract_outcome,    \* what the extraction API answered for current_paper
    extract_calls,      \* number of calls of extract_species_from_text
    primary_calls,      \* doi -> number of get_paper_references calls
    primary_result,     \* doi -> what get_paper_references gave for the paper:
                        \* not called, empty or found
    title_calls,        \* doi -> number of search_papers_by_title calls
    discovered,         \* the references of the current step before the filter
    fetch_log,          \* fetches of the current references step
    delays,             \* number of time.sleep(3) taken
    saved,              \* [written, rows]: the CSV that main wrote, NotSaved when none
    filter_in,          \* the papers given to filter_papers_by_keywords when it
                        \* is run on its own (SpecFilter)
    title_in,           \* the words of the title given to search_papers_by_title
                        \* when it is run on its own (SpecTitle)
    search_terms        \* the key_words of that call

vars == <<pc, max_papers, max_depth, keywords, seed_text, all_species_data, processed_dois,
          papers_to_process, papers_processed, current_paper, references, ref_i,
          dequeued, enqueued_by, enqueued, extract_outcome, extract_calls,
          primary_calls, primary_result, title_calls, discovered, fetch_log, delays, saved,
          filter_in, title_in, search_terms>>

progVars == <<seed_text, all_species_data, processed_dois, papers_to_process,
              papers_processed, current_paper, references, ref_i>>

obsVars == <<dequeued, enqueued_by, enqueued, extract_outcome, extract_calls, primary_calls,
             primary_result, title_calls, discovered, fetch_log, delays, saved,
             filter_in, title_in, search_terms>>

argVars == <<max_papers, max_depth, keywords>>

----------------------------------------------------------------------------
(* Bounds of the model *)

\* args.max_papers ranges over 0..MaxPapers
MaxPapers == 3
\* args.max_depth ranges over 0..MaxDepth
MaxDepth == 2
\* a raw answer of Scopus lists at most MaxRefs entries
MaxRefs == 2
\* filter_papers_by_keywords alone: a title has at most MaxTitleLen characters
\* and a keyword one less, and there are at most MaxFilterKeywords keywords
MaxTitleLen == 2
MaxFilterKeywords == 2

----------------------------------------------------------------------------
(* Strings *)

\* str.lower() on the ASCII capitals
LowerOf ==
    [A |-> "a", B |-> "b", C |-> "c", D |-> "d", E |-> "e", F |-> "f", G |-> "g", H |-> "h", I |-> "i", J |-> "j", K |-> "k", L |-> "l", M |-> "m",
     N |-> "n", O |-> "o", P |-> "p", Q |-> "q", R |-> "r", S |-> "s", T |-> "t", U |-> "u", V |-> "v", W |-> "w", X |-> "x", Y |-> "y", Z |-> "z"]

UpperLetters == DOMAIN LowerOf

LowerLetters ==
    {"a", "b", "c", "d", "e", "f", "g", "h", "i", "j", "k", "l", "m",
     "n", "o", "p", "q", "r", "s", "t", "u", "v", "w", "x", "y", "z"}

Digits == {"0", "1", "2", "3", "4", "5", "6", "7", "8", "9"}

\* str.lower() on one character
LowerChar(c) == IF c \in UpperLetters THEN LowerOf[c] ELSE c

\* str.lower()
Lower(s) == [i \in 1..Len(s) |-> LowerChar(s[i])]

\* Python's `sub in s`
Contains(s, sub) ==
    \E i \in 0..(Len(s) - Len(sub)) : SubSeq(s, i + 1, i + Len(sub)) = sub

\* [a-zA-Z]
IsLetter(c) == c \in UpperLetters \cup LowerLetters

\* \w of the re module
IsWordChar(c) == IsLetter(c) \/ c \in Digits \/ c = "_"


\* str.strip() on a str without tabs or line breaks
RECURSIVE Strip(_)
Strip(s) ==
    IF s = <<>> THEN s
    ELSE IF Head(s) = " " THEN Strip(Tail(s))
    ELSE IF s[Len(s)] = " " THEN Strip(SubSeq(s, 1, Len(s) - 1))
    ELSE s

\* list[:n]
Take(l, n) == SubSeq(l, 1, IF Len(l) < n THEN Len(l) ELSE n)

\* the titles of the model
TitleBeetle == <<"C", "a", "n", "o", "p", "y", " ", "B", "e", "e", "t", "l", "e", " ", "S", "u", "r", "v", "e", "y">>
TitleUnrelated == <<"U", "n", "r", "e", "l", "a", "t", "e", "d", " ", "T", "o", "p", "i", "c">>
TitleAnt == <<"A", "n", "t">>
TitleForest == <<"F", "o", "r", "e", "s", "t", " ", "C", "a", "n", "o", "p", "y", " ", "A", "r", "t", "h", "r", "o", "p", "o", "d", " ", "D", "i", "v", "e", "r", "s", "i", "t", "y">>
\* seed_title when no line of the seed qualifies
SeedPaperTitle == <<"S", "e", "e", "d", " ", "P", "a", "p", "e", "r">>

----------------------------------------------------------------------------
(* The helpers of the program *)

\* the substring test with its operands swapped: title in keyword
TitleInKeyword(title, kws) ==
    \E k \in 1..Len(kws) : Contains(Lower(kws[k]), Lower(title))

\* filter_papers_by_keywords, line 304: any(keyword in title for keyword in keywords_lower)
TitleHasKeyword(title, kws) ==
    \E k \in 1..Len(kws) : Contains(Lower(title), Lower(kws[k]))

\* filter_papers_by_keywords(papers, keywords)
filter_papers_by_keywords(papers, kws) ==
    IF kws = <<>> THEN papers
    ELSE SelectSeq(papers, LAMBDA paper : TitleHasKeyword(paper.title, kws))

\* re.findall(r'\b[a-zA-Z]{4,}\b', s): the maximal runs of \w characters of s
\* that are made of letters only and are at least MinWordLen long.
\* `run` is the run being read, `ok` whether it holds letters only.
MinWordLen == 4

RECURSIVE FindWords(_, _, _)
FindWords(s, run, ok) ==
    LET closed == IF ok /\ Len(run) >= MinWordLen THEN <<run>> ELSE <<>>
    IN  IF s = <<>> THEN closed
        ELSE IF IsWordChar(Head(s))
             THEN FindWords(Tail(s), Append(run, Head(s)), ok /\ IsLetter(Head(s)))
             ELSE closed \o FindWords(Tail(s), <<>>, TRUE)

\* search_papers_by_title, line 251
stop_words ==
    {<<"t", "h", "e">>, <<"a">>, <<"a", "n">>, <<"a", "n", "d">>, <<"o", "r">>,
     <<"b", "u", "t">>, <<"i", "n">>, <<"o", "n">>, <<"a", "t">>, <<"t", "o">>,
     <<"f", "o", "r">>, <<"o", "f">>, <<"w", "i", "t", "h">>, <<"b", "y">>}

\* number of key words kept, line 252
MaxKeyWords == 3

\* search_papers_by_title, lines 249-252: the search terms of a title
key_words(title) ==
    Take(SelectSeq(FindWords(Lower(title), <<>>, TRUE),
                   LAMBDA word : word \notin stop_words),
         MaxKeyWords)

\* get_paper_references keeps a reference with a DOI and a title longer than this
MinRefTitleLen == 10
\* get_paper_references returns at most this many references, line 225
RefLimit == 10

\* get_paper_references(doi): what it returns for Scopus's raw answer
get_paper_references(answer) ==
    IF answer.kind # "ok" THEN <<>>
    ELSE Take(SelectSeq(answer.entries,
                        LAMBDA r : r.doi # "" /\ r.title # <<>>
                                   /\ Len(r.title) > MinRefTitleLen),
              RefLimit)

\* search_papers_by_title(title): what it returns for Scopus's raw answer;
\* without key words no request is sent
search_papers_by_title(title, answer) ==
    IF key_words(title) = <<>> THEN <<>>
    ELSE IF answer.kind # "ok" THEN <<>>
    ELSE SelectSeq(answer.entries, LAMBDA r : r.doi # "" /\ r.title # <<>>)

\* get_paper_text_from_scopus(doi): "" unless Scopus has an entry with a title
\* or an abstract
get_paper_text_from_scopus(answer) ==
    IF answer.kind # "ok" THEN ""
    ELSE IF answer.has_title \/ answer.has_abstract THEN "abstract text"
    ELSE ""

\* an extraction that reports a failure as a record of its own
extract_species_placeholder(answer, doi, title, distance) ==
    IF answer.kind # "json"
    THEN <<[doi |-> doi, species |-> "UNSPECIFIED",
            distance_from_seed |-> distance, title |-> Strip(title)]>>
    ELSE LET dicts == SelectSeq(answer.items, LAMBDA item : item # "not a dict")
         IN  [i \in 1..Len(dicts) |->
                 [doi |-> doi, species |-> dicts[i],
                  distance_from_seed |-> distance, title |-> Strip(title)]]

\* extract_species_from_text: the records for the extraction API's answer.
\* A failed request and an answer that json.loads rejects raise inside the
\* try block and give [].
extract_species_from_text(answer, doi, title, distance) ==
    IF answer.kind # "json" THEN <<>>
    ELSE LET dicts == SelectSeq(answer.items, LAMBDA item : item # "not a dict")
         IN  [i \in 1..Len(dicts) |->
                 [doi |-> doi, species |-> dicts[i],
                  distance_from_seed |-> distance, title |-> Strip(title)]]

----------------------------------------------------------------------------
(* The inputs of a run *)

\* seed_doi when the seed's text holds no DOI, line 389
SEED_PAPER == "SEED_PAPER"
\* a DOI that the pattern of line 388 finds in the seed's text
SeedDoi == "1.1/seed"

\* What extract_pdf_text and the two scans of the seed's text (lines 388-399)
\* give: the text, the matched DOI ("" for no match) and the first line that
\* qualifies as a title (<<>> for none)
SeedInputs ==
    {[text |-> "", doi_match |-> "", title_line |-> <<>>]} \cup
    {[text |-> "seed text", doi_match |-> "", title_line |-> <<>>],
     [text |-> "seed text", doi_match |-> SeedDoi, title_line |-> TitleForest]}

\* the entries Scopus may list, as (prism:doi, title)
RefA == [doi |-> "10.1/a", title |-> TitleBeetle]
RefB == [doi |-> "10.1/b", title |-> TitleUnrelated]
\* an entry that names the DOI found in the seed; its title is too short for
\* get_paper_references to keep it and has no word of four letters
RefSeedDoi == [doi |-> SeedDoi, title |-> TitleAnt]

RawEntries == {RefA, RefB, RefSeedDoi}

Dois == {SEED_PAPER} \cup {r.doi : r \in RawEntries}

\* a raw answer of Scopus to a references or a search request
ScopusAnswers ==
    {[kind |-> "error", entries |-> <<>>]} \cup
    {[kind |-> "ok", entries |-> l] :
        l \in UNION {[1..n -> RawEntries] : n \in 0..MaxRefs}}

\* a raw answer of Scopus to the abstract request of get_paper_text_from_scopus
TextAnswers ==
    {[kind |-> "error", has_title |-> FALSE, has_abstract |-> FALSE],
     [kind |-> "ok", has_title |-> FALSE, has_abstract |-> FALSE],
     [kind |-> "ok", has_title |-> TRUE, has_abstract |-> TRUE]}

\* an answer of the extraction API
ExtractorAnswers ==
    {[kind |-> "transport_error", items |-> <<>>],
     [kind |-> "malformed", items |-> <<>>],
     [kind |-> "json", items |-> <<>>],
     [kind |-> "json", items |-> <<"not a dict">>],
     [kind |-> "json", items |-> <<"Genus species">>]}

\* the values of --keywords after line 365
KeywordArgs == {<<>>, <<<<"B", "e", "e", "t", "l", "e">>>>}

NoPaper == [doi |-> "", title |-> <<>>, text |-> "", distance |-> 0]
\* the CSV when main has written none: line 499 is false or not reached
NotSaved == [written |-> FALSE, rows |-> <<>>]
NotRead == "not read"

----------------------------------------------------------------------------
(* main() *)

Init ==
    /\ pc = "start"
    /\ max_papers \in 0..MaxPapers
    /\ max_depth \in 0..MaxDepth
    /\ keywords \in KeywordArgs
    /\ seed_text = NotRead
    /\ all_species_data = <<>>
    /\ processed_dois = {}
    /\ papers_to_process = <<>>
    /\ papers_processed = 0
    /\ current_paper = NoPaper
    /\ references = <<>>
    /\ ref_i = 1
    /\ dequeued = <<>>
    /\ enqueued_by = [d \in {} |-> ""]
    /\ enqueued = <<>>
    /\ extract_outcome = "none"
    /\ extract_calls = 0
    /\ primary_calls = [d \in Dois |-> 0]
    /\ primary_result = [d \in Dois |-> "not called"]
    /\ title_calls = [d \in Dois |-> 0]
    /\ discovered = <<>>
    /\ fetch_log = <<>>
    /\ delays = 0
    /\ saved = NotSaved
    /\ filter_in = <<>>
    /\ title_in = <<>>
    /\ search_terms = <<>>

\* a seed without text that is not noticed
SeedUnreadableNever(text) == FALSE

\* line 383: `if not seed_text`
SeedUnreadable(text) == text = ""

\* a paper put at the head of the queue
EnqueueFront(queue, paper) == <<paper>> \o queue

\* lines 405 and 476: papers_to_process.append({...})
Enqueue(queue, paper) == Append(queue, paper)

\* lines 380-411: read the seed; stop when it has no text, else queue it
ReadSeed ==
    /\ pc = "start"
    /\ \E seed \in SeedInputs :
         /\ seed_text' = seed.text
         /\ IF SeedUnreadable(seed.text)
            THEN /\ pc' = "aborted"
                 /\ UNCHANGED <<papers_to_process, enqueued>>
            ELSE LET seed_doi == IF seed.doi_match # "" THEN seed.doi_match
                                 ELSE SEED_PAPER
                     seed_title == IF seed.title_line # <<>> THEN seed.title_line
                                   ELSE SeedPaperTitle
                 IN  /\ papers_to_process' =
                            Enqueue(papers_to_process,
                                    [doi |-> seed_doi, title |-> seed_title,
                                     text |-> seed.text, distance |-> 0])
                     /\ enqueued' = Append(enqueued, seed_doi)
                     /\ pc' = "loop"
    /\ UNCHANGED <<all_species_data, processed_dois, papers_processed,
                   current_paper, references, ref_i>>
    /\ UNCHANGED argVars
    /\ UNCHANGED <<dequeued, enqueued_by, extract_outcome, extract_calls, primary_calls,
                   primary_result, title_calls, discovered, fetch_log, delays, saved,
                   filter_in, title_in, search_terms>>

\* the while loop without its budget test
LoopConditionQueueOnly == papers_to_process # <<>>

\* line 416: the condition of the while loop
LoopCondition ==
    papers_to_process # <<>> /\ papers_processed < max_papers

\* line 422: `if current_doi in processed_dois`
AlreadyProcessed(doi) == doi \in processed_dois

\* a processed doi that is not recorded
MarkProcessedForgets(dois, doi) == dois

\* line 425: processed_dois.add(current_doi)
MarkProcessed(dois, doi) == dois \cup {doi}

\* the records of the current paper put in place of those collected so far
ReplaceRecords(records, species_data) == species_data

\* line 437: all_species_data.extend(species_data)
ExtendRecords(records, species_data) == records \o species_data

\* a read of the head of the queue that leaves it in the queue
PopKeeps(queue) == [paper |-> Head(queue), rest |-> queue]

\* a pop at the wrong end of the queue
PopLast(queue) ==
    [paper |-> queue[Len(queue)], rest |-> SubSeq(queue, 1, Len(queue) - 1)]

\* line 417: papers_to_process.pop(0)
PopFirst(queue) == [paper |-> Head(queue), rest |-> Tail(queue)]

\* lines 416-439: pop the head of the queue; skip it when its doi was processed,
\* else count it and extract its species
ProcessPaper ==
    /\ pc = "loop"
    /\ LoopCondition
    /\ LET paper == PopFirst(papers_to_process).paper
       IN  /\ current_paper' = paper
           /\ papers_to_process' = PopFirst(papers_to_process).rest
           /\ IF AlreadyProcessed(paper.doi)
              THEN /\ pc' = "loop"
                   /\ UNCHANGED <<processed_dois, papers_processed, all_species_data,
                                  dequeued, extract_outcome, extract_calls>>
              ELSE /\ processed_dois' = MarkProcessed(processed_dois, paper.doi)
                   /\ papers_processed' = papers_processed + 1
                   /\ dequeued' = Append(dequeued, [doi |-> paper.doi,
                                                    distance |-> paper.distance])
                   /\ \E answer \in ExtractorAnswers :
                        /\ all_species_data' =
                               ExtendRecords(all_species_data,
                                   extract_species_from_text(answer, paper.doi,
                                       paper.title, paper.distance))
                        /\ extract_outcome' = IF answer.kind = "json" THEN "ok"
                                               ELSE "failed"
                   /\ extract_calls' = extract_calls + 1
                   /\ pc' = "references"
    /\ UNCHANGED <<seed_text, references, ref_i>>
    /\ UNCHANGED argVars
    /\ UNCHANGED <<enqueued_by, enqueued, primary_calls, primary_result, title_calls,
                   discovered, fetch_log, delays, saved, filter_in, title_in, search_terms>>

\* the depth test off by one
WithinDepthInclusive(distance) == distance <= max_depth

\* line 442: `if current_distance < args.max_depth`
WithinDepth(distance) == distance < max_depth

\* the test of line 448 turned around
HasRealDoiInverted(doi) == doi = SEED_PAPER

\* a reference listing asked for the placeholder doi too
HasRealDoiAlways(doi) == TRUE

\* line 448: `if current_doi != "SEED_PAPER"`
HasRealDoi(doi) == doi # SEED_PAPER

\* a title search whatever the reference listing gave
NoReferencesAlways(refs) == TRUE

\* line 452: `if not references`
NoReferences(refs) == refs = <<>>

\* lines 441-450: below max_depth, ask Scopus for the references of the paper
\* unless its doi is the placeholder
GetReferences ==
    /\ pc = "references"
    /\ IF WithinDepth(current_paper.distance)
       THEN IF HasRealDoi(current_paper.doi)
            THEN \E answer \in ScopusAnswers :
                   LET refs == get_paper_references(answer)
                   IN  /\ references' = refs
                       /\ primary_calls' =
                            [primary_calls EXCEPT ![current_paper.doi] = @ + 1]
                       /\ primary_result' =
                            [primary_result EXCEPT ![current_paper.doi] =
                                IF refs = <<>> THEN "empty" ELSE "found"]
                       /\ pc' = IF NoReferences(refs) THEN "title_search" ELSE "filter"
            ELSE /\ references' = <<>>
                 /\ pc' = IF NoReferences(<<>>) THEN "title_search" ELSE "filter"
                 /\ UNCHANGED <<primary_calls, primary_result>>
       ELSE /\ pc' = "rate"
            /\ UNCHANGED <<references, primary_calls, primary_result>>
    /\ UNCHANGED <<seed_text, all_species_data, processed_dois, papers_to_process,
                   papers_processed, current_paper, ref_i>>
    /\ UNCHANGED argVars
    /\ UNCHANGED <<dequeued, enqueued_by, enqueued, extract_outcome, extract_calls, title_calls,
                   discovered, fetch_log, delays, saved, filter_in, title_in, search_terms>>

\* lines 452-455: no references, so search Scopus by the paper's title
TitleSearch ==
    /\ pc = "title_search"
    /\ \E answer \in ScopusAnswers :
         references' = search_papers_by_title(current_paper.title, answer)
    /\ title_calls' = [title_calls EXCEPT ![current_paper.doi] = @ + 1]
    /\ pc' = "filter"
    /\ UNCHANGED <<seed_text, all_species_data, processed_dois, papers_to_process,
                   papers_processed, current_paper, ref_i>>
    /\ UNCHANGED argVars
    /\ UNCHANGED <<dequeued, enqueued_by, enqueued, extract_outcome, extract_calls, primary_calls,
                   primary_result, discovered, fetch_log, delays, saved, filter_in, title_in, search_terms>>

\* lines 459-466: keep the references whose title has a keyword, when keywords
\* are given, and start the loop over them
FilterReferences ==
    /\ pc = "filter"
    /\ references' = IF keywords # <<>> /\ references # <<>>
                     THEN filter_papers_by_keywords(references, keywords)
                     ELSE references
    /\ ref_i' = 1
    /\ discovered' = references
    /\ fetch_log' = <<>>
    /\ pc' = "add_refs"
    /\ UNCHANGED <<seed_text, all_species_data, processed_dois, papers_to_process,
                   papers_processed, current_paper>>
    /\ UNCHANGED argVars
    /\ UNCHANGED <<dequeued, enqueued_by, enqueued, extract_outcome, extract_calls, primary_calls,
                   primary_result, title_calls, delays, saved, filter_in, title_in, search_terms>>

\* a reference never looked up in the queue
InQueueNever(doi) == FALSE

\* any(p['doi'] == ref_doi for p in papers_to_process)
InQueue(doi) == \E k \in 1..Len(papers_to_process) : papers_to_process[k].doi = doi

\* the test of line 472 without its first half
IsNewReferenceQueueOnly(doi) == ~InQueue(doi)

\* the test of line 472 without its second half
IsNewReferenceProcessedOnly(doi) == doi \notin processed_dois

\* line 472: the reference is neither processed nor in the queue
IsNewReference(doi) == doi \notin processed_dois /\ ~InQueue(doi)

\* a queued reference that keeps its parent's distance
ChildDistanceSame(distance) == distance

\* line 480: the distance of a queued reference
ChildDistance(distance) == distance + 1

\* line 486: `if len(papers_to_process) + papers_processed >= args.max_papers`
EnoughQueued(queue) == Len(queue) + papers_processed >= max_papers

\* lines 467-489: one turn of `for ref in references`: fetch the text of a new
\* reference and queue it when there is text; stop the loop when enough is queued.
\* Leaving the loop empties `references` and resets ref_i: the program does not
\* read them again before line 445 sets the list anew.
AddReference ==
    /\ pc = "add_refs"
    /\ ref_i <= Len(references)
    /\ LET ref == references[ref_i]
       IN  IF IsNewReference(ref.doi)
           THEN \E answer \in TextAnswers :
                  LET ref_text == get_paper_text_from_scopus(answer)
                      queue == Enqueue(papers_to_process,
                                       [doi |-> ref.doi, title |-> ref.title,
                                        text |-> ref_text,
                                        distance |-> ChildDistance(current_paper.distance)])
                  IN  /\ fetch_log' = Append(fetch_log,
                             [doi |-> ref.doi, title |-> ref.title,
                              processed |-> ref.doi \in processed_dois,
                              queued |-> \E k \in 1..Len(papers_to_process) :
                                             papers_to_process[k].doi = ref.doi,
                              text |-> ref_text])
                      /\ IF ref_text # ""
                         THEN /\ papers_to_process' = queue
                              /\ enqueued_by' =
                                   [d \in DOMAIN enqueued_by \cup {ref.doi} |->
                                      IF d = ref.doi THEN current_paper.doi
                                      ELSE enqueued_by[d]]
                              /\ enqueued' = Append(enqueued, ref.doi)
                              /\ IF EnoughQueued(queue)
                                 THEN pc' = "rate" /\ ref_i' = 1
                                 ELSE pc' = "add_refs" /\ ref_i' = ref_i + 1
                         ELSE /\ pc' = "add_refs"
                              /\ ref_i' = ref_i + 1
                              /\ UNCHANGED <<papers_to_process, enqueued_by, enqueued>>
           ELSE /\ pc' = "add_refs"
                /\ ref_i' = ref_i + 1
                /\ UNCHANGED <<papers_to_process, enqueued_by, enqueued, fetch_log>>
    /\ references' = IF pc' = "rate" THEN <<>> ELSE references
    /\ UNCHANGED <<seed_text, all_species_data, processed_dois, papers_processed,
                   current_paper>>
    /\ UNCHANGED argVars
    /\ UNCHANGED <<dequeued, extract_outcome, extract_calls, primary_calls,
                   primary_result, title_calls, discovered, delays, saved, filter_in, title_in, search_terms>>

\* line 467: the loop over the references is over
EndReferences ==
    /\ pc = "add_refs"
    /\ ref_i > Len(references)
    /\ pc' = "rate"
    /\ references' = <<>>
    /\ ref_i' = 1
    /\ UNCHANGED <<seed_text, all_species_data, processed_dois, papers_to_process,
                   papers_processed, current_paper>>
    /\ UNCHANGED argVars
    /\ UNCHANGED obsVars

\* a sleep whenever a paper is queued, the budget used up or not
MoreToProcessQueueOnly == papers_to_process # <<>>

\* line 494: `if papers_processed < args.max_papers and papers_to_process`
MoreToProcess == papers_processed < max_papers /\ papers_to_process # <<>>

\* lines 493-496: sleep when another paper will be processed. The log of the
\* step's candidates and fetches is dropped here.
RateLimit ==
    /\ pc = "rate"
    /\ delays' = IF MoreToProcess THEN delays + 1 ELSE delays
    /\ pc' = "loop"
    /\ UNCHANGED progVars
    /\ UNCHANGED argVars
    /\ fetch_log' = <<>>
    /\ discovered' = <<>>
    /\ UNCHANGED <<dequeued, enqueued_by, enqueued, extract_outcome, extract_calls, primary_calls,
                   primary_result, title_calls, saved, filter_in, title_in, search_terms>>

\* lines 498-521: the loop is over; write the CSV when there are records
SaveResults ==
    /\ pc = "loop"
    /\ ~LoopCondition
    /\ saved' = IF all_species_data # <<>>
                THEN [written |-> TRUE, rows |-> all_species_data]
                ELSE NotSaved
    /\ pc' = "done"
    /\ UNCHANGED progVars
    /\ UNCHANGED argVars
    /\ UNCHANGED <<dequeued, enqueued_by, enqueued, extract_outcome, extract_calls, primary_calls,
                   primary_result, title_calls, discovered, fetch_log, delays,
                   filter_in, title_in, search_terms>>

Next ==
    \/ ReadSeed
    \/ ProcessPaper
    \/ GetReferences
    \/ TitleSearch
    \/ FilterReferences
    \/ AddReference
    \/ EndReferences
    \/ RateLimit
    \/ SaveResults

Spec == Init /\ [][Next]_vars

\* The program is one sequential thread and every call it makes returns (the
\* requests have timeouts, the exceptions are caught): a step that can be
\* taken is taken.
SpecLive == Spec /\ WF_vars(Next)

----------------------------------------------------------------------------
(* Properties of a crawl run *)

\* the two characters are the same letter, whatever their case
SameLetter(c, d) ==
    \/ c = d
    \/ c \in UpperLetters /\ LowerOf[c] = d
    \/ d \in UpperLetters /\ LowerOf[d] = c
    \/ c \in UpperLetters /\ d \in UpperLetters /\ LowerOf[c] = LowerOf[d]

\* the keyword occurs in the title at some offset, letter by letter, case ignored
OccursIgnoringCase(title, kw) ==
    \E off \in 0..(Len(title) - Len(kw)) :
        \A j \in 1..Len(kw) : SameLetter(title[off + j], kw[j])

\* the items of l are items of m, in m's order
RECURSIVE IsSubsequence(_, _)
IsSubsequence(l, m) ==
    IF l = <<>> THEN TRUE
    ELSE IF m = <<>> THEN FALSE
    ELSE IF Head(l) = Head(m) THEN IsSubsequence(Tail(l), Tail(m))
    ELSE IsSubsequence(l, Tail(m))

QueueDois == {papers_to_process[k].doi : k \in 1..Len(papers_to_process)}

DequeuedDois == {dequeued[i].doi : i \in 1..Len(dequeued)}

\* C1: no doi is dequeued and processed more than once: the sequence of
\* processed dois has no repetition, whatever the candidate lists name.
NoDuplicateProcessing ==
    \A i, j \in 1..Len(dequeued) :
        i # j => dequeued[i].doi # dequeued[j].doi

\* C1 happens: the references loop has passed a candidate that names a doi
\* already processed (the seed's own, or another parent's), two papers are
\* processed and one more is queued
NoDuplicateProcessingWitness ==
    /\ pc = "add_refs"
    /\ Len(dequeued) >= 2
    /\ papers_to_process # <<>>
    /\ \E k \in 1..(ref_i - 1) : references[k].doi = dequeued[1].doi

\* C2: the number of papers dequeued and processed never exceeds max_papers,
\* max_papers = 0 included.
BudgetRespected ==
    /\ Len(dequeued) <= max_papers
    /\ papers_processed <= max_papers
    /\ papers_processed = Len(dequeued)

\* C2 happens: the run ended because the budget was used up, with papers
\* still in the queue
BudgetRespectedWitness ==
    /\ pc = "done"
    /\ max_papers > 0
    /\ Len(dequeued) = max_papers
    /\ papers_to_process # <<>>

\* position of a processed doi in the order of processing
Pos(doi) == CHOOSE i \in 1..Len(dequeued) : dequeued[i].doi = doi

\* distance a processed doi was queued with
DistanceOf(doi) == dequeued[Pos(doi)].distance

\* Number of references steps that lead from paper b down to paper a: 1 when
\* a was queued by the references step of b, 2 when by that of a paper queued
\* by b's, ...; 0 when a = b and -1 when a does not descend from b.
\* `fuel` bounds the walk up the chain.
RECURSIVE Hops(_, _, _)
Hops(a, b, fuel) ==
    IF a = b THEN 0
    ELSE IF fuel = 0 \/ a \notin DOMAIN enqueued_by THEN -1
    ELSE LET h == Hops(enqueued_by[a], b, fuel - 1)
         IN  IF h < 0 THEN -1 ELSE h + 1

HopsBetween(a, b) == Hops(a, b, Cardinality(DOMAIN enqueued_by))

\* C3 as stated: for processed papers A and B, if A was queued directly or
\* transitively as a discovery result of B, then A.distance = B.distance + 1
\* and A is dequeued no earlier than B.
BfsOrderAsStated ==
    \A a, b \in DequeuedDois :
        HopsBetween(a, b) > 0 =>
            /\ DistanceOf(a) = DistanceOf(b) + 1
            /\ Pos(b) <= Pos(a)

\* C3 amended: for processed papers A and B, if A was queued as a discovery
\* result of B through k references steps (k = 1: directly), then
\* A.distance = B.distance + k and A is dequeued no earlier than B.
BfsOrder ==
    \A a, b \in DequeuedDois :
        HopsBetween(a, b) > 0 =>
            /\ DistanceOf(a) = DistanceOf(b) + HopsBetween(a, b)
            /\ Pos(b) <= Pos(a)

\* C3 happens: a paper queued by a paper that the seed queued is processed
BfsOrderWitness ==
    \E a, b \in DequeuedDois : HopsBetween(a, b) = 2

\* C4: no discovery step (reference listing or title search) runs for a paper
\* whose distance is >= max_depth, and no queued paper has a distance above
\* max_depth.
DepthRespected ==
    /\ \A d \in Dois :
          primary_calls[d] > 0 \/ title_calls[d] > 0 =>
              d \in DequeuedDois /\ DistanceOf(d) < max_depth
    /\ pc \in {"title_search", "filter", "add_refs"} =>
          current_paper.distance < max_depth
    /\ \A k \in 1..Len(papers_to_process) :
          papers_to_process[k].distance <= max_depth

\* C4 happens: a paper at distance max_depth >= 1 went through its iteration
\* with neither a reference listing nor a title search
DepthRespectedWitness ==
    /\ pc = "rate"
    /\ max_depth >= 1
    /\ current_paper.distance = max_depth
    /\ primary_calls[current_paper.doi] = 0
    /\ title_calls[current_paper.doi] = 0

\* C6: a processed paper whose reference listing returned nothing gets exactly
\* one title search, whatever its doi, and a paper whose reference listing
\* returned a reference gets none.
TitleSearchOnEmptyListing ==
    \A d \in Dois :
        /\ title_calls[d] <= 1
        /\ primary_result[d] = "empty" /\ ~(pc = "title_search" /\ current_paper.doi = d)
              => title_calls[d] = 1
        /\ primary_result[d] = "found" => title_calls[d] = 0

\* C6 happens: a paper other than the seed had an empty reference listing and
\* was searched by title, and another paper had references listed
TitleSearchOnEmptyListingWitness ==
    /\ Len(dequeued) >= 2
    /\ \E d \in DequeuedDois :
          /\ d # dequeued[1].doi
          /\ primary_result[d] = "empty"
          /\ title_calls[d] = 1
    /\ \E d \in DequeuedDois : primary_result[d] = "found"

\* C7: when the seed gives no text the run stops at once: nothing is queued,
\* dequeued or processed, the extractor, the reference listing, the title
\* search and the text fetch are never called, nothing is written and no
\* step follows.
SeedFatal ==
    seed_text = "" =>
        /\ pc = "aborted"
        /\ papers_to_process = <<>>
        /\ dequeued = <<>>
        /\ processed_dois = {}
        /\ papers_processed = 0
        /\ extract_calls = 0
        /\ all_species_data = <<>>
        /\ \A d \in Dois : primary_calls[d] = 0 /\ title_calls[d] = 0
        /\ fetch_log = <<>>
        /\ saved = NotSaved
        /\ ~ENABLED Next

\* C7 happens: the seed was read and had no text
SeedFatalWitness ==
    seed_text = "" /\ pc = "aborted"

\* C8: when the extraction of the current paper failed, the paper has no
\* record, it counts as processed, its discovery step runs when its distance
\* is below max_depth, and the run ends only when the queue is empty or the
\* budget is used up.
ExtractionFailureNonFatal ==
    extract_outcome = "failed" =>
        /\ pc \notin {"start", "aborted"}
        /\ current_paper.doi \in processed_dois
        /\ dequeued[Len(dequeued)].doi = current_paper.doi
        /\ papers_processed = Len(dequeued)
        /\ \A i \in 1..Len(all_species_data) :
              all_species_data[i].doi # current_paper.doi
        /\ pc \in {"rate", "loop", "done"} /\ current_paper.distance < max_depth
              => primary_calls[current_paper.doi] + title_calls[current_paper.doi] >= 1
        /\ pc = "done"
              => papers_to_process = <<>> \/ papers_processed >= max_papers

\* C8 happens: the extraction of the second paper failed, no paper has given
\* a record, and the references step of that paper has fetched a text
ExtractionFailureNonFatalWitness ==
    /\ extract_outcome = "failed"
    /\ Len(dequeued) = 2
    /\ all_species_data = <<>>
    /\ pc = "add_refs"
    /\ fetch_log # <<>>

\* C9: a text is fetched only for a candidate that the references step
\* discovered, that passed the keyword filter when keywords are given, and
\* whose doi was at that moment neither processed nor in the queue.
FetchOnlyNewFilteredCandidates ==
    \A i \in 1..Len(fetch_log) :
        /\ ~fetch_log[i].processed
        /\ ~fetch_log[i].queued
        /\ \E k \in 1..Len(discovered) :
              /\ discovered[k].doi = fetch_log[i].doi
              /\ discovered[k].title = fetch_log[i].title
        /\ keywords # <<>> =>
              \E k \in 1..Len(keywords) :
                  OccursIgnoringCase(fetch_log[i].title, keywords[k])

\* C9 happens: with keywords given, a references step discovered two
\* candidates, the filter rejected one and the text of the other was fetched
FetchOnlyNewFilteredCandidatesWitness ==
    /\ pc = "add_refs"
    /\ keywords # <<>>
    /\ Len(discovered) = 2
    /\ Len(references) = 1
    /\ Len(fetch_log) = 1

\* C10: the processed dois and the dois in the queue are disjoint, and the
\* processed dois are exactly the dois of the papers dequeued so far: a doi
\* is not marked processed when it is discovered or queued.
VisitedDisjointFromQueue ==
    /\ processed_dois \cap QueueDois = {}
    /\ processed_dois = DequeuedDois

\* C10 happens: two papers are processed, a third is queued, and the
\* references loop has passed a candidate that names a processed doi
VisitedDisjointFromQueueWitness ==
    /\ Cardinality(processed_dois) = 2
    /\ papers_to_process # <<>>
    /\ pc = "add_refs"
    /\ \E k \in 1..(ref_i - 1) : references[k].doi \in processed_dois

\* C11: the papers are processed level by level: the first processed paper
\* is the seed at distance 0, the distances of the processed papers never
\* decrease in the order of processing, and no paper still in the queue has a
\* distance below that of a processed paper.
LevelOrdered ==
    /\ dequeued # <<>> => dequeued[1].distance = 0
    /\ \A i, j \in 1..Len(dequeued) :
          i < j => dequeued[i].distance <= dequeued[j].distance
    /\ \A i \in 1..Len(dequeued) : \A k \in 1..Len(papers_to_process) :
          dequeued[i].distance <= papers_to_process[k].distance

\* C11 happens: the seed and two papers at distance 1 are processed while a
\* paper at distance 2, queued by the first of them, waits in the queue
LevelOrderedWitness ==
    /\ Len(dequeued) = 3
    /\ dequeued[2].distance = 1
    /\ dequeued[3].distance = 1
    /\ \E k \in 1..Len(papers_to_process) : papers_to_process[k].distance = 2

\* length of the queue when the i-th text of the current references step was
\* fetched: each later fetch that gave a text has added one paper since
QueuedAtFetch(i) ==
    Len(papers_to_process)
        - Cardinality({j \in i..Len(fetch_log) : fetch_log[j].text # ""})

\* C12: within a references step no text is fetched, and so no paper queued,
\* once len(papers_to_process) + papers_processed >= max_papers: every fetch
\* of the step was issued with the sum below max_papers, a step that starts
\* with the sum at or above max_papers fetches nothing, and the sum after the
\* step's fetches is at most max_papers.
NoFetchAtBudget ==
    /\ \A i \in 1..Len(fetch_log) :
          QueuedAtFetch(i) + papers_processed < max_papers
    /\ fetch_log # <<>> =>
          Len(papers_to_process) + papers_processed <= max_papers

\* C13 as stated: a title search is run for a processed paper only when its
\* reference listing returned nothing AND its doi is not the placeholder; no
\* title search is run for the placeholder seed doi.
TitleSearchOnlyForRealDoiAsStated ==
    \A d \in Dois :
        title_calls[d] > 0 => primary_result[d] = "empty" /\ d # SEED_PAPER

\* C13 amended: a title search is run for a processed paper only when it has
\* no listed reference: its reference listing was called and returned
\* nothing, or was not called because its doi is the placeholder. For the
\* placeholder seed doi, below max_depth, no reference listing is called and
\* the title search is run once.
TitleSearchOnlyWithoutReferences ==
    /\ \A d \in Dois :
          title_calls[d] > 0 =>
              \/ d # SEED_PAPER /\ primary_calls[d] = 1 /\ primary_result[d] = "empty"
              \/ d = SEED_PAPER /\ primary_calls[d] = 0
    /\ pc = "title_search" => references = <<>>
    /\ /\ SEED_PAPER \in DequeuedDois
       /\ max_depth > 0
       /\ ~(current_paper.doi = SEED_PAPER /\ pc \in {"references", "title_search"})
       => title_calls[SEED_PAPER] = 1

\* C13 happens: the placeholder seed was searched by title, and so was a
\* paper whose reference listing returned nothing
TitleSearchOnlyWithoutReferencesWitness ==
    /\ title_calls[SEED_PAPER] = 1
    /\ \E d \in Dois \ {SEED_PAPER} :
          title_calls[d] = 1 /\ primary_result[d] = "empty"

\* C14: a candidate whose text fetch gave no text is dropped and leaves the
\* frontier as it was: during the rest of the references step its doi is
\* neither processed nor in the queue, the count of processed papers is still
\* that of the step's own paper, and no other fetch of the step names its doi.
EmptyFetchDropsCandidate ==
    \A i \in 1..Len(fetch_log) :
        fetch_log[i].text = "" =>
            /\ fetch_log[i].doi \notin processed_dois
            /\ fetch_log[i].doi \notin QueueDois
            /\ dequeued[papers_processed].doi = current_paper.doi
            /\ \A j \in 1..Len(fetch_log) :
                  j # i => fetch_log[j].doi # fetch_log[i].doi

\* C15: a run whose seed gave text reaches the end of main whatever the
\* reference listings, title searches, text fetches and extractions answer
\* (failures included), and at the end the queue is empty or the count of
\* processed papers has reached max_papers.
RunReachesDone ==
    /\ (pc = "loop") ~> (pc = "done")
    /\ [](seed_text \notin {NotRead, ""} => pc # "aborted")
    /\ [](pc = "done" => papers_to_process = <<>> \/ papers_processed >= max_papers)

\* C15 happens: the run is over with an empty queue and the budget not used
\* up, after a paper whose reference listing gave nothing and whose
\* extraction failed
RunReachesDoneWitness ==
    /\ pc = "done"
    /\ papers_to_process = <<>>
    /\ Len(dequeued) = 2
    /\ papers_processed < max_papers
    /\ primary_result[dequeued[2].doi] = "empty"
    /\ extract_outcome = "failed"

\* C16: the sleep is taken after a processed paper exactly when another paper
\* is dequeued and processed next: while the n-th paper is being processed
\* n - 1 sleeps have been taken, after it one more has been taken if and only
\* if the loop goes on (queue not empty and budget not used up), and at the
\* end the sleeps are one fewer than the processed papers.
DelayBetweenPapers ==
    /\ dequeued = <<>> => delays = 0
    /\ pc \in {"references", "title_search", "filter", "add_refs", "rate"} =>
          delays = Len(dequeued) - 1
    /\ pc = "loop" /\ dequeued # <<>> =>
          delays = IF LoopCondition THEN Len(dequeued) ELSE Len(dequeued) - 1
    /\ pc = "done" /\ dequeued # <<>> => delays = Len(dequeued) - 1

\* C16 happens: three papers were processed with two sleeps, and the run
\* ended on its budget with a paper left in the queue and no third sleep
DelayBetweenPapersWitness ==
    /\ pc = "done"
    /\ Len(dequeued) = 3
    /\ delays = 2
    /\ papers_to_process # <<>>

\* every record carries the doi of a processed paper and the distance that
\* paper was queued with, and the records follow the order of processing
RecordsStamped ==
    /\ \A i \in 1..Len(all_species_data) :
          /\ all_species_data[i].doi \in processed_dois
          /\ all_species_data[i].doi \in DequeuedDois
          /\ all_species_data[i].distance_from_seed =
                DistanceOf(all_species_data[i].doi)
    /\ \A i, j \in 1..Len(all_species_data) :
          i < j => Pos(all_species_data[i].doi) <= Pos(all_species_data[j].doi)

\* the list l is the beginning of the list m
IsPrefix(l, m) == Len(l) <= Len(m) /\ SubSeq(m, 1, Len(l)) = l

\* C17: after every step each record of all_species_data carries the doi of
\* a paper that was dequeued (a processed doi) and the distance that paper
\* was queued with, the records are in the order their papers were
\* processed, and the list before the step is the beginning of the list after
\* it: records are appended only, never changed or removed.
RecordsStampedAppendOnly ==
    [][IsPrefix(all_species_data, all_species_data') /\ RecordsStamped']_vars

\* C17 happens: three papers are processed, the first and the third gave a
\* record, at distances 0 and 1, and the run is over with both written
RecordsStampedAppendOnlyWitness ==
    /\ pc = "done"
    /\ Len(dequeued) = 3
    /\ Len(all_species_data) = 2
    /\ all_species_data[1].doi = dequeued[1].doi
    /\ all_species_data[2].doi = dequeued[3].doi
    /\ all_species_data[2].distance_from_seed = 1
    /\ saved = [written |-> TRUE, rows |-> all_species_data]

\* the dois of a list of papers, in the list's order
DoisOf(papers) == [i \in 1..Len(papers) |-> papers[i].doi]

\* the dois that the references step of the current paper has queued so far
QueuedByCurrent ==
    SelectSeq(enqueued, LAMBDA d : d \in DOMAIN enqueued_by
                                   /\ enqueued_by[d] = current_paper.doi)

\* C18: the papers are processed in the order they were queued: the dois
\* queued so far, in order, are the processed dois in processing order
\* followed by the queue. The papers one references step queues enter the
\* queue in the order the discovery listed them: they are the candidates
\* whose fetch gave text, in fetch order, and that order is the order of the
\* discovered list.
FifoOrder ==
    /\ enqueued = DoisOf(dequeued) \o DoisOf(papers_to_process)
    /\ pc \in {"add_refs", "rate"} =>
          /\ QueuedByCurrent =
                DoisOf(SelectSeq(fetch_log, LAMBDA f : f.text # ""))
          /\ IsSubsequence(QueuedByCurrent, DoisOf(discovered))
          /\ SubSeq(enqueued, Len(enqueued) - Len(QueuedByCurrent) + 1,
                    Len(enqueued)) = QueuedByCurrent

\* C18 happens: the seed's step listed 10.1/a before 10.1/b and queued both,
\* and the three papers were processed in that order
FifoOrderWitness ==
    /\ Len(dequeued) = 3
    /\ dequeued[2].doi = RefA.doi
    /\ dequeued[3].doi = RefB.doi
    /\ enqueued_by[RefA.doi] = dequeued[1].doi
    /\ enqueued_by[RefB.doi] = dequeued[1].doi

\* C20: no two papers in the queue have the same doi; so the paper at the
\* head of the queue is never one already processed, the skip of line 422 is
\* never taken, and every pop counts: the number of papers popped so far
\* (those queued less those still queued) is papers_processed.
QueueDoisUnique ==
    /\ \A i, j \in 1..Len(papers_to_process) :
          i # j => papers_to_process[i].doi # papers_to_process[j].doi
    /\ pc = "loop" /\ LoopCondition =>
          ~AlreadyProcessed(PopFirst(papers_to_process).paper.doi)
    /\ Len(enqueued) - Len(papers_to_process) = papers_processed

\* C20 happens: the references step of the second paper listed the same doi
\* twice, queued it at the first entry and passed the second
QueueDoisUniqueWitness ==
    /\ pc = "add_refs"
    /\ Len(dequeued) = 2
    /\ ref_i = 3
    /\ references[1].doi = references[2].doi
    /\ references[1].doi \in QueueDois

\* the references step of the processed doi d has passed its reference
\* listing (lines 445-449)
PastListing(d) ==
    /\ d \in DequeuedDois
    /\ DistanceOf(d) < max_depth
    /\ ~(current_paper.doi = d /\ pc = "references")

\* C21: get_paper_references is never called with the placeholder doi
\* "SEED_PAPER": a processed paper with that doi, below max_depth, goes
\* straight to the title search. For every other processed paper below
\* max_depth get_paper_references is called exactly once, and before any
\* title search for that paper.
PrimaryNeverForPlaceholder ==
    /\ primary_calls[SEED_PAPER] = 0
    /\ primary_result[SEED_PAPER] = "not called"
    /\ PastListing(SEED_PAPER) =>
          \/ title_calls[SEED_PAPER] = 1
          \/ pc = "title_search" /\ current_paper.doi = SEED_PAPER
    /\ \A d \in Dois \ {SEED_PAPER} :
          /\ primary_calls[d] <= 1
          /\ PastListing(d) => primary_calls[d] = 1
          /\ title_calls[d] > 0 => primary_calls[d] = 1
          /\ pc = "title_search" /\ current_paper.doi = d => primary_calls[d] = 1

\* C21 happens: the placeholder seed went to the title search without a
\* reference listing, and the second paper had its references listed once
\* and was not searched by title
PrimaryNeverForPlaceholderWitness ==
    /\ pc = "rate"
    /\ Len(dequeued) = 2
    /\ dequeued[1].doi = SEED_PAPER
    /\ primary_calls[SEED_PAPER] = 0
    /\ title_calls[SEED_PAPER] = 1
    /\ primary_calls[dequeued[2].doi] = 1
    /\ primary_result[dequeued[2].doi] = "found"
    /\ title_calls[dequeued[2].doi] = 0

----------------------------------------------------------------------------
(* filter_papers_by_keywords on its own: every list of at most MaxRefs papers
   with titles over {A, b} and every list of at most MaxFilterKeywords
   keywords over {a, B}, so that a keyword matches only across cases *)

StringsOver(alphabet, lo, hi) == UNION {[1..n -> alphabet] : n \in lo..hi}

ListsOver(items, hi) == UNION {[1..n -> items] : n \in 0..hi}

FilterPapers ==
    {[doi |-> "10.1/x", title |-> t] : t \in StringsOver({"A", "b"}, 0, MaxTitleLen)}

FilterKeywords == StringsOver({"a", "B"}, 1, MaxTitleLen - 1)

InitFilter ==
    /\ pc = "filter_call"
    /\ filter_in \in ListsOver(FilterPapers, MaxRefs)
    /\ keywords \in ListsOver(FilterKeywords, MaxFilterKeywords)
    /\ max_papers = 0
    /\ max_depth = 0
    /\ seed_text = NotRead
    /\ all_species_data = <<>>
    /\ processed_dois = {}
    /\ papers_to_process = <<>>
    /\ papers_processed = 0
    /\ current_paper = NoPaper
    /\ references = <<>>
    /\ ref_i = 1
    /\ dequeued = <<>>
    /\ enqueued_by = [d \in {} |-> ""]
    /\ enqueued = <<>>
    /\ extract_outcome = "none"
    /\ extract_calls = 0
    /\ primary_calls = [d \in Dois |-> 0]
    /\ primary_result = [d \in Dois |-> "not called"]
    /\ title_calls = [d \in Dois |-> 0]
    /\ discovered = <<>>
    /\ fetch_log = <<>>
    /\ delays = 0
    /\ saved = NotSaved
    /\ title_in = <<>>
    /\ search_terms = <<>>

\* a call filter_papers_by_keywords(filter_in, keywords)
FilterCall ==
    /\ pc = "filter_call"
    /\ references' = filter_papers_by_keywords(filter_in, keywords)
    /\ pc' = "filter_return"
    /\ UNCHANGED <<seed_text, all_species_data, processed_dois, papers_to_process,
                   papers_processed, current_paper, ref_i>>
    /\ UNCHANGED argVars
    /\ UNCHANGED obsVars

NextFilter == FilterCall

SpecFilter == InitFilter /\ [][NextFilter]_vars

\* C5: with keywords, filter_papers_by_keywords returns a list no longer than
\* its input, made of papers of the input, each with a title in which one of
\* the keywords occurs, case ignored; without keywords it returns the input.
KeywordFilterIsSubset ==
    pc = "filter_return" =>
        IF keywords = <<>> THEN references = filter_in
        ELSE /\ Len(references) <= Len(filter_in)
             /\ IsSubsequence(references, filter_in)
             /\ \A i \in 1..Len(references) :
                   \E k \in 1..Len(keywords) :
                       OccursIgnoringCase(references[i].title, keywords[k])

\* C5 happens: of two papers one is dropped and one is kept, and the kept
\* title holds no keyword in the keyword's own case
KeywordFilterIsSubsetWitness ==
    /\ pc = "filter_return"
    /\ Len(keywords) = 2
    /\ Len(filter_in) = 2
    /\ Len(references) = 1
    /\ \A k \in 1..Len(keywords) : ~Contains(references[1].title, keywords[k])

----------------------------------------------------------------------------
(* search_papers_by_title on its own: every title of at most MaxTitleWords
   words out of TitleWords, separated by blanks, and every answer of Scopus *)

\* number of words of a title
MaxTitleWords == 4

\* a word that occurs in two cases, a stop word long enough for the pattern,
\* a word too short for it, a run of word characters that is not a word, and
\* one more word
TitleWords ==
    {<<"b", "e", "e", "s">>, <<"B", "e", "e", "s">>, <<"w", "i", "t", "h">>,
     <<"a", "n", "t">>, <<"b", "e", "e", "s", "2">>,
     <<"f", "o", "r", "e", "s", "t">>}

\* ' '.join(words)
RECURSIVE JoinWords(_)
JoinWords(words) ==
    IF words = <<>> THEN <<>>
    ELSE IF Len(words) = 1 THEN Head(words)
    ELSE Head(words) \o <<" ">> \o JoinWords(Tail(words))

InitTitle ==
    /\ pc = "title_call"
    /\ title_in \in UNION {[1..n -> TitleWords] : n \in 0..MaxTitleWords}
    /\ search_terms = <<>>
    /\ filter_in = <<>>
    /\ keywords = <<>>
    /\ max_papers = 0
    /\ max_depth = 0
    /\ seed_text = NotRead
    /\ all_species_data = <<>>
    /\ processed_dois = {}
    /\ papers_to_process = <<>>
    /\ papers_processed = 0
    /\ current_paper = NoPaper
    /\ references = <<>>
    /\ ref_i = 1
    /\ dequeued = <<>>
    /\ enqueued_by = [d \in {} |-> ""]
    /\ enqueued = <<>>
    /\ extract_outcome = "none"
    /\ extract_calls = 0
    /\ primary_calls = [d \in Dois |-> 0]
    /\ primary_result = [d \in Dois |-> "not called"]
    /\ title_calls = [d \in Dois |-> 0]
    /\ discovered = <<>>
    /\ fetch_log = <<>>
    /\ delays = 0
    /\ saved = NotSaved

\* a call search_papers_by_title(' '.join(title_in)) answered by Scopus
TitleCall ==
    /\ pc = "title_call"
    /\ search_terms' = key_words(JoinWords(title_in))
    /\ \E answer \in ScopusAnswers :
         references' = search_papers_by_title(JoinWords(title_in), answer)
    /\ pc' = "title_return"
    /\ UNCHANGED <<seed_text, all_species_data, processed_dois, papers_to_process,
                   papers_processed, current_paper, ref_i>>
    /\ UNCHANGED argVars
    /\ UNCHANGED <<dequeued, enqueued_by, enqueued, extract_outcome, extract_calls,
                   primary_calls, primary_result, title_calls, discovered, fetch_log,
                   delays, saved, filter_in, title_in>>

NextTitle == TitleCall

SpecTitle == InitTitle /\ [][NextTitle]_vars

\* the words of the title that count as significant: in lower case, letters
\* only, at least MinWordLen of them, and no stop word
SignificantWords(words) ==
    SelectSeq([i \in 1..Len(words) |-> Lower(words[i])],
              LAMBDA w : /\ Len(w) >= MinWordLen
                         /\ \A k \in 1..Len(w) : IsLetter(w[k])
                         /\ w \notin stop_words)

\* the list without the later occurrences of a word
RECURSIVE FirstOccurrences(_)
FirstOccurrences(l) ==
    IF l = <<>> THEN <<>>
    ELSE LET rest == FirstOccurrences(SubSeq(l, 1, Len(l) - 1))
             last == l[Len(l)]
         IN  IF \E i \in 1..Len(rest) : rest[i] = last THEN rest
             ELSE Append(rest, last)

\* C19: the search terms of a title are its first MaxKeyWords significant
\* words with stop words and repeated words removed, in the order of their
\* first occurrence; no word occurs twice among the terms; a title without a
\* significant word gives no terms, no request and an empty result.
SearchTermsDistinct ==
    pc = "title_return" =>
        /\ search_terms = Take(FirstOccurrences(SignificantWords(title_in)), MaxKeyWords)
        /\ \A i, j \in 1..Len(search_terms) :
              i # j => search_terms[i] # search_terms[j]
        /\ SignificantWords(title_in) = <<>> =>
              search_terms = <<>> /\ references = <<>>

====
